---- MODULE Spec2Model ----
(***************************************************************************)
(* The server-side rules engine of the two-seat Ludo game                  *)
(* (src/server/sockets/io.js): the room table, the joining and leaving of   *)
(* connections, and the three intents a connection can send for its room:  *)
(* rollDice, makeMove and noMoves.  Each handler is one action; the        *)
(* helpers it calls                                                        *)
(* (validateMove, getPath, applyMove, checkForKill,                        *)
(* updateLockedPositions, hasPlayerWon) are operators computed as the      *)
(* code computes them.                                                     *)
(* The client (src/front/public/js/Ludo.js, UI.js) is modelled next to it   *)
(* for the properties that relate what a client offers and emits to what   *)
(* the server accepts.                                                     *)
(***************************************************************************)
EXTENDS Integers, Sequences, FiniteSets, TLC

VARIABLES
    games,      \* the room table: room id -> [players, gameState]
    last,       \* history: the intent handled last
    pre,        \* history: the room table as it was before that intent
    emitted,    \* history: the socket events the last handler emitted
    steps,      \* number of intents handled so far
    call,       \* a call of a topology function taken alone: arguments, result
    keys,       \* the keys of the room table in insertion order (`for ... in`)
    conn,       \* connection -> the room its handlers are bound to
    clients,    \* connection -> the fields of its client (class Ludo) and its page
    wire        \* the intents the clients have emitted and the server has yet to take

vars == <<games, last, pre, emitted, steps, call, keys, conn, clients, wire>>

----------------------------------------------------------------------------
(* Bounds of the exploration *)

\* number of intents handled in one behaviour
MaxIntents == 4

----------------------------------------------------------------------------
(* Constants.  constants_server.js is required by io.js but is not part of *)
(* the sources at hand; the tables below follow the specification's data   *)
(* model (52 track cells, 5 home-lane cells, Base values >= 500).          *)

\* JavaScript null of diceValue; ToNumber(null) is 0 in `i < diceValue`
NULL == 0

\* `currentPosition >= 500` marks a piece in base
BaseThreshold == 500

\* `currentPosition === 51` wraps to 0
TrackLast == 51

\* Math.floor(Math.random() * 6) + 1
DiceSides == 6

PLAYERS == <<"P1", "P3">>

PlayerIds == {"P1", "P3"}

PieceIndexes == 0..3

BASE_POSITIONS(p) ==
    IF p = "P1" THEN <<500, 501, 502, 503>> ELSE <<700, 701, 702, 703>>

START_POSITIONS(p) == IF p = "P1" THEN 0 ELSE 26

HOME_ENTRANCE(p) ==
    IF p = "P1" THEN <<100, 101, 102, 103, 104>> ELSE <<300, 301, 302, 303, 304>>

HOME_POSITIONS(p) == IF p = "P1" THEN 105 ELSE 305

TURNING_POINTS(p) == IF p = "P1" THEN 50 ELSE 24

SAFE_POSITIONS == {0, 8, 13, 21, 26, 34, 39, 47}

\* the room created for the first connection: `room-${socket.id}`
Room == "room-s1"

Sockets == {"s1", "s2"}

\* the players array of the started room, in joining order
StartedPlayers ==
    << [socketId |-> "s1", playerId |-> "P1"],
       [socketId |-> "s2", playerId |-> "P3"] >>

----------------------------------------------------------------------------
(* Array helpers *)

\* Array.prototype.includes on a sequence
includes(seq, x) == \E i \in 1..Len(seq) : seq[i] = x

\* Array.prototype.indexOf (0-based) of an element the sequence includes
indexOf(seq, x) ==
    (CHOOSE i \in 1..Len(seq) : seq[i] = x /\ \A j \in 1..(i - 1) : seq[j] # x) - 1

\* JavaScript undefined, the value of an array element that is not there,
\* and NaN, the value of arithmetic on it.  Both stand below every position,
\* as `undefined >= 500`, `NaN > homePosition` and the like are false.
undefined == 0 - 1

NaN == 0 - 2

\* element at a 0-based index: `seq[i]`
at(seq, i) == IF i < Len(seq) THEN seq[i + 1] ELSE undefined

\* `seq[i] = value` for a 0-based index; an index past the end grows the array
setAt(seq, i, value) ==
    [ k \in 1..(IF i + 1 > Len(seq) THEN i + 1 ELSE Len(seq)) |->
        IF k = i + 1 THEN value
        ELSE IF k <= Len(seq) THEN seq[k]
        ELSE undefined ]

----------------------------------------------------------------------------
(* Board topology *)

\* getNextPosition stepping from the last track cell to 52
getNextPositionNoWrap(playerId, currentPosition) ==
    IF currentPosition = TURNING_POINTS(playerId)
    THEN at(HOME_ENTRANCE(playerId), 0)
    ELSE IF includes(HOME_ENTRANCE(playerId), currentPosition)
    THEN LET index == indexOf(HOME_ENTRANCE(playerId), currentPosition)
         IN  IF index + 1 < Len(HOME_ENTRANCE(playerId))
             THEN at(HOME_ENTRANCE(playerId), index + 1)
             ELSE HOME_POSITIONS(playerId)
    ELSE currentPosition + 1

getNextPosition(playerId, currentPosition) ==
    IF currentPosition = TURNING_POINTS(playerId)
    THEN at(HOME_ENTRANCE(playerId), 0)
    ELSE IF includes(HOME_ENTRANCE(playerId), currentPosition)
    THEN LET index == indexOf(HOME_ENTRANCE(playerId), currentPosition)
         IN  IF index + 1 < Len(HOME_ENTRANCE(playerId))
             THEN at(HOME_ENTRANCE(playerId), index + 1)
             ELSE HOME_POSITIONS(playerId)
    ELSE IF currentPosition = TrackLast
    THEN 0
    \* `undefined + 1` and `NaN + 1` are NaN
    ELSE IF currentPosition \in {undefined, NaN}
    THEN NaN
    ELSE currentPosition + 1

isHomePosition(playerId, position) == HOME_POSITIONS(playerId) = position

\* the overshoot check answering no for every position
isBeyondHomeNever(playerId, position) == FALSE

isBeyondHome(playerId, position) ==
    LET homePosition == HOME_POSITIONS(playerId)
    IN  IF includes(HOME_ENTRANCE(playerId), position) \/ position = homePosition
        THEN FALSE
        ELSE position > homePosition

\* the loop of getPath: i pips taken so far, the piece on pos
RECURSIVE getPathFrom(_, _, _, _)
getPathFrom(player, pos, i, diceValue) ==
    IF i < diceValue
    THEN LET next == getNextPosition(player, pos)
         IN  IF isHomePosition(player, next)
             THEN <<next>>
             ELSE <<next>> \o getPathFrom(player, next, i + 1, diceValue)
    ELSE <<>>

\* getPath going on after Home
RECURSIVE getPathUncutFrom(_, _, _, _)
getPathUncutFrom(player, pos, i, diceValue) ==
    IF i < diceValue
    THEN LET next == getNextPosition(player, pos)
         IN  <<next>> \o getPathUncutFrom(player, next, i + 1, diceValue)
    ELSE <<>>

getPathUncut(player, currentPosition, diceValue) ==
    getPathUncutFrom(player, currentPosition, 0, diceValue)

getPath(player, currentPosition, diceValue) ==
    getPathFrom(player, currentPosition, 0, diceValue)

\* the loop of applyMove: one getNextPosition per pip, never cut short
RECURSIVE stepByStep(_, _, _, _)
stepByStep(playerId, pos, i, diceValue) ==
    IF i < diceValue
    THEN LET next == getNextPosition(playerId, pos)
         IN  <<next>> \o stepByStep(playerId, next, i + 1, diceValue)
    ELSE <<>>

----------------------------------------------------------------------------
(* Lock index *)

\* positionCount[position][playerId] of updateLockedPositions
positionCount(currentPositions, position, playerId) ==
    Cardinality({ i \in 1..Len(currentPositions[playerId]) :
        /\ currentPositions[playerId][i] = position
        /\ ~includes(BASE_POSITIONS(playerId), position)
        /\ HOME_POSITIONS(playerId) # position })

\* the map updateLockedPositions leaves in gameState.lockedPositions; on a
\* position both players hold twice the later player of the iteration wins
updateLockedPositions(currentPositions) ==
    LET counted == UNION { { currentPositions[p][i] : i \in 1..Len(currentPositions[p]) } :
                             p \in DOMAIN currentPositions }
        locked == { pos \in counted :
                      \E p \in DOMAIN currentPositions :
                          positionCount(currentPositions, pos, p) >= 2 }
        owner(pos) ==
            LET k == CHOOSE k \in 1..Len(PLAYERS) :
                        /\ PLAYERS[k] \in DOMAIN currentPositions
                        /\ positionCount(currentPositions, pos, PLAYERS[k]) >= 2
                        /\ \A j \in (k + 1)..Len(PLAYERS) :
                              ~(/\ PLAYERS[j] \in DOMAIN currentPositions
                                /\ positionCount(currentPositions, pos, PLAYERS[j]) >= 2)
            IN  PLAYERS[k]
    IN  [pos \in locked |-> owner(pos)]

\* gameState.lockedPositions[position] || null
isPositionLocked(gameState, position) ==
    IF position \in DOMAIN gameState.lockedPositions
    THEN gameState.lockedPositions[position]
    ELSE "null"

----------------------------------------------------------------------------
(* Move validator: the second (effective) declaration of validateMove *)

\* the lock loop finding no position of the path blocked
pathBlockedNever(gameState, playerId, path) == FALSE

\* `lockOwner && lockOwner !== playerId` for some position of the path
pathBlocked(gameState, playerId, path) ==
    \E k \in 1..Len(path) :
        LET lockOwner == isPositionLocked(gameState, path[k])
        IN  lockOwner # "null" /\ lockOwner # playerId

\* validateMove letting a base piece out on any pending dice value
validateMoveAnyDiceFromBase(gameState, playerId, pieceIndex) ==
    LET currentPosition == at(gameState.currentPositions[playerId], pieceIndex)
        diceValue == gameState.diceValue
        path == getPath(playerId, currentPosition, diceValue)
    IN  IF currentPosition >= BaseThreshold
        THEN diceValue # NULL
        ELSE ~pathBlocked(gameState, playerId, path)
             /\ ~(Len(path) > 0 /\ isBeyondHome(playerId, path[Len(path)]))

\* validateMove without the lock check on the entry cell
validateMoveEntryUnchecked(gameState, playerId, pieceIndex) ==
    LET currentPosition == at(gameState.currentPositions[playerId], pieceIndex)
        diceValue == gameState.diceValue
        path == getPath(playerId, currentPosition, diceValue)
    IN  IF currentPosition >= BaseThreshold
        THEN diceValue = 6
        ELSE ~pathBlocked(gameState, playerId, path)
             /\ ~(Len(path) > 0 /\ isBeyondHome(playerId, path[Len(path)]))

\* validateMove checking the lock of the landing cell only
validateMoveLandingOnly(gameState, playerId, pieceIndex) ==
    LET currentPosition == at(gameState.currentPositions[playerId], pieceIndex)
        diceValue == gameState.diceValue
        path == getPath(playerId, currentPosition, diceValue)
    IN  IF currentPosition >= BaseThreshold
        THEN diceValue = 6
             /\ ~pathBlocked(gameState, playerId, <<START_POSITIONS(playerId)>>)
        ELSE ~(Len(path) > 0 /\ pathBlocked(gameState, playerId, <<path[Len(path)]>>))
             /\ ~(Len(path) > 0 /\ isBeyondHome(playerId, path[Len(path)]))

validateMove(gameState, playerId, pieceIndex) ==
    LET currentPosition == at(gameState.currentPositions[playerId], pieceIndex)
        diceValue == gameState.diceValue
    IN  IF currentPosition >= BaseThreshold
        THEN IF diceValue # 6
             THEN FALSE
             ELSE LET startingPosition == START_POSITIONS(playerId)
                      lockOwner == isPositionLocked(gameState, startingPosition)
                  IN  ~(lockOwner # "null" /\ lockOwner # playerId)
        ELSE LET path == getPath(playerId, currentPosition, diceValue)
             IN  IF pathBlocked(gameState, playerId, path)
                 THEN FALSE
                 \* path[path.length - 1] of an empty path is undefined, and
                 \* undefined > homePosition is false
                 ELSE IF Len(path) > 0 /\ isBeyondHome(playerId, path[Len(path)])
                 THEN FALSE
                 ELSE TRUE

----------------------------------------------------------------------------
(* Move applier *)

\* the pieces of opponentId standing on newPosition, in index order
killedOf(currentPositions, opponentId, newPosition) ==
    LET RECURSIVE from(_)
        from(i) ==
            IF i >= Len(currentPositions[opponentId])
            THEN <<>>
            ELSE (IF at(currentPositions[opponentId], i) = newPosition
                  THEN <<[opponentId |-> opponentId, pieceIndex |-> i]>>
                  ELSE <<>>) \o from(i + 1)
    IN  from(0)

\* checkForKill without the safe-cell test
checkForKillOnSafe(gameState, playerId, newPosition) ==
    IF isPositionLocked(gameState, newPosition) # "null"
    THEN [currentPositions |-> gameState.currentPositions, killedPieces |-> <<>>]
    ELSE LET cp == gameState.currentPositions
             opponentId == CHOOSE p \in DOMAIN cp : p # playerId
         IN  [ currentPositions |->
                 [ p \in DOMAIN cp |->
                     IF p = playerId
                     THEN cp[p]
                     ELSE [ i \in 1..Len(cp[p]) |->
                              IF cp[p][i] = newPosition
                              THEN BASE_POSITIONS(p)[i]
                              ELSE cp[p][i] ] ],
               killedPieces |-> killedOf(cp, opponentId, newPosition) ]

\* checkForKill sending every captured piece to the first base slot
checkForKillFirstSlot(gameState, playerId, newPosition) ==
    IF newPosition \in SAFE_POSITIONS \/ isPositionLocked(gameState, newPosition) # "null"
    THEN [currentPositions |-> gameState.currentPositions, killedPieces |-> <<>>]
    ELSE LET cp == gameState.currentPositions
             opponentId == CHOOSE p \in DOMAIN cp : p # playerId
         IN  [ currentPositions |->
                 [ p \in DOMAIN cp |->
                     IF p = playerId
                     THEN cp[p]
                     ELSE [ i \in 1..Len(cp[p]) |->
                              IF cp[p][i] = newPosition
                              THEN BASE_POSITIONS(p)[1]
                              ELSE cp[p][i] ] ],
               killedPieces |-> killedOf(cp, opponentId, newPosition) ]

\* checkForKill reporting the captured pieces and leaving them where they are
checkForKillReportOnly(gameState, playerId, newPosition) ==
    IF newPosition \in SAFE_POSITIONS \/ isPositionLocked(gameState, newPosition) # "null"
    THEN [currentPositions |-> gameState.currentPositions, killedPieces |-> <<>>]
    ELSE LET cp == gameState.currentPositions
             opponentId == CHOOSE p \in DOMAIN cp : p # playerId
         IN  [ currentPositions |-> cp,
               killedPieces |-> killedOf(cp, opponentId, newPosition) ]

\* checkForKill: the positions it leaves and the killedPieces it returns
checkForKill(gameState, playerId, newPosition) ==
    IF newPosition \in SAFE_POSITIONS
    THEN [currentPositions |-> gameState.currentPositions, killedPieces |-> <<>>]
    ELSE IF isPositionLocked(gameState, newPosition) # "null"
    THEN [currentPositions |-> gameState.currentPositions, killedPieces |-> <<>>]
    ELSE LET cp == gameState.currentPositions
             RECURSIVE killedFrom(_)
             killedFrom(k) ==
                 IF k > Len(PLAYERS)
                 THEN <<>>
                 ELSE (IF PLAYERS[k] \in DOMAIN cp /\ PLAYERS[k] # playerId
                       THEN killedOf(cp, PLAYERS[k], newPosition)
                       ELSE <<>>) \o killedFrom(k + 1)
         IN  [ currentPositions |->
                 [ p \in DOMAIN cp |->
                     IF p = playerId
                     THEN cp[p]
                     ELSE [ i \in 1..Len(cp[p]) |->
                              IF cp[p][i] = newPosition
                              THEN BASE_POSITIONS(p)[i]
                              ELSE cp[p][i] ] ],
               killedPieces |-> killedFrom(1) ]

\* applyMove leaving the lock map as it was before the move
applyMoveStaleLocks(gameState, playerId, pieceIndex) ==
    LET currentPosition == at(gameState.currentPositions[playerId], pieceIndex)
        diceValue == gameState.diceValue
        path == IF currentPosition >= BaseThreshold
                THEN <<START_POSITIONS(playerId)>>
                ELSE stepByStep(playerId, currentPosition, 0, diceValue)
        newPosition == IF Len(path) > 0 THEN path[Len(path)] ELSE currentPosition
        moved == [gameState EXCEPT
                    !.currentPositions[playerId][pieceIndex + 1] = newPosition]
        kill == checkForKill(moved, playerId, newPosition)
        killOccurred == Len(kill.killedPieces) > 0
    IN  [ gameState |->
            [ moved EXCEPT
                !.currentPositions = kill.currentPositions,
                !.killOccurred = killOccurred ],
          moveData |->
            [ playerId |-> playerId,
              pieceIndex |-> pieceIndex,
              path |-> path,
              killOccurred |-> killOccurred,
              killedPieces |-> kill.killedPieces ] ]

\* applyMove walking a base piece on from the entry cell by the dice value
applyMoveEntryByDice(gameState, playerId, pieceIndex) ==
    LET currentPosition == at(gameState.currentPositions[playerId], pieceIndex)
        diceValue == gameState.diceValue
        path == IF currentPosition >= BaseThreshold
                THEN stepByStep(playerId, START_POSITIONS(playerId), 0, diceValue)
                ELSE stepByStep(playerId, currentPosition, 0, diceValue)
        newPosition == IF Len(path) > 0 THEN path[Len(path)] ELSE currentPosition
        moved == [gameState EXCEPT
                    !.currentPositions[playerId][pieceIndex + 1] = newPosition]
        kill == checkForKill(moved, playerId, newPosition)
        killOccurred == Len(kill.killedPieces) > 0
    IN  [ gameState |->
            [ moved EXCEPT
                !.currentPositions = kill.currentPositions,
                !.killOccurred = killOccurred,
                !.lockedPositions = updateLockedPositions(kill.currentPositions) ],
          moveData |->
            [ playerId |-> playerId,
              pieceIndex |-> pieceIndex,
              path |-> path,
              killOccurred |-> killOccurred,
              killedPieces |-> kill.killedPieces ] ]

\* applyMove: the game state it leaves and the movement data it returns
applyMove(gameState, playerId, pieceIndex) ==
    LET currentPosition == at(gameState.currentPositions[playerId], pieceIndex)
        diceValue == gameState.diceValue
        path == IF currentPosition >= BaseThreshold
                THEN <<START_POSITIONS(playerId)>>
                ELSE stepByStep(playerId, currentPosition, 0, diceValue)
        newPosition == IF Len(path) > 0 THEN path[Len(path)] ELSE currentPosition
        moved == [gameState EXCEPT
                    !.currentPositions[playerId] = setAt(@, pieceIndex, newPosition)]
        kill == checkForKill(moved, playerId, newPosition)
        killOccurred == Len(kill.killedPieces) > 0
    IN  [ gameState |->
            [ moved EXCEPT
                !.currentPositions = kill.currentPositions,
                !.killOccurred = killOccurred,
                !.lockedPositions = updateLockedPositions(kill.currentPositions) ],
          moveData |->
            [ playerId |-> playerId,
              pieceIndex |-> pieceIndex,
              path |-> path,
              killOccurred |-> killOccurred,
              killedPieces |-> kill.killedPieces ] ]

\* a win declared on the first piece at Home
hasPlayerWonAny(gameState, playerId) ==
    \E i \in 1..Len(gameState.currentPositions[playerId]) :
        gameState.currentPositions[playerId][i] = HOME_POSITIONS(playerId)

hasPlayerWon(gameState, playerId) ==
    \A i \in 1..Len(gameState.currentPositions[playerId]) :
        gameState.currentPositions[playerId][i] = HOME_POSITIONS(playerId)

----------------------------------------------------------------------------
(* Match state *)

initializeGameState(players) ==
    [ currentPositions |->
        [ p \in { players[k].playerId : k \in 1..Len(players) } |-> BASE_POSITIONS(p) ],
      turn |-> 0,
      diceValue |-> NULL,
      killOccurred |-> FALSE,
      lockedPositions |-> <<>> ]

\* `!game || !game.gameState`; a room waiting for its second player has
\* `gameState: null`, which is a room record without the gameState field
gameNotFound(room) ==
    room \notin DOMAIN games \/ "gameState" \notin DOMAIN games[room]

\* game.players[game.gameState.turn] is undefined, so that reading
\* `currentPlayer.socketId` throws a TypeError and the handler ends there
noCurrentPlayer(game) == game.gameState.turn >= Len(game.players)

\* the keys of the room table that are keys of table, in insertion order
keysLeft(table) ==
    LET kept(r) == r \in DOMAIN table
    IN  SelectSeq(keys, kept)

\* what a handler that threw leaves behind
threw(socketId) == [event |-> "TypeError", to |-> socketId]

\* game.players[game.gameState.turn]
currentPlayerOf(game) == at(game.players, game.gameState.turn)

\* the turn check left out
outOfTurnUnchecked(game, socketId) == FALSE

\* `currentPlayer.socketId !== socketId`
outOfTurn(game, socketId) == currentPlayerOf(game).socketId # socketId

\* the result of the validation ignored
isValidUnchecked(gameState, playerId, pieceIndex) == TRUE

\* `const isValid = validateMove(game.gameState, playerId, pieceIndex)`
isValid(gameState, playerId, pieceIndex) == validateMove(gameState, playerId, pieceIndex)

\* the whole room table emptied with the room
deleteRoomAll(room) == <<>>

\* the room kept after the game is over
deleteRoomKept(room) == games

\* `delete games[room]`
deleteRoom(room) == [r \in DOMAIN games \ {room} |-> games[r]]

errorMessage(socketId, message) ==
    [event |-> "errorMessage", to |-> socketId, message |-> message]

\* what every handler records of the intent it was called with
Handled(op, room, socketId, pieceIndex) ==
    /\ steps < MaxIntents
    /\ steps' = steps + 1
    /\ pre' = games
    /\ last' = [op |-> op, room |-> room, socketId |-> socketId, pieceIndex |-> pieceIndex]
    /\ call' = call
    /\ conn' = conn

----------------------------------------------------------------------------
(* Intent handlers *)

handleDiceRoll(room, socketId) ==
    /\ Handled("rollDice", room, socketId, 0)
    /\ IF gameNotFound(room)
       THEN /\ games' = games
            /\ emitted' = <<>>
       ELSE IF noCurrentPlayer(games[room])
       THEN /\ games' = games
            /\ emitted' = <<threw(socketId)>>
       ELSE IF outOfTurn(games[room], socketId)
       THEN /\ games' = games
            /\ emitted' = <<errorMessage(socketId, "It is not your turn to roll the dice.")>>
       ELSE \E diceValue \in 1..DiceSides :
            /\ games' = [games EXCEPT ![room].gameState.diceValue = diceValue]
            /\ emitted' = << [ event |-> "diceRolled", to |-> room,
                               playerId |-> currentPlayerOf(games[room]).playerId,
                               diceValue |-> diceValue ] >>
    /\ keys' = keysLeft(games')

\* the turn transition granting the repeat turn for a 6 only
afterMoveSixOnly(game, applied) ==
    [ applied EXCEPT
        !.turn = IF applied.diceValue = 6 THEN @ ELSE (@ + 1) % Len(game.players),
        !.diceValue = NULL,
        !.killOccurred = FALSE ]

\* the turn transition leaving the dice value on a repeat turn
afterMoveKeepsDice(game, applied) ==
    LET extraTurn == applied.diceValue = 6 \/ applied.killOccurred
    IN  [ applied EXCEPT
            !.turn = IF extraTurn THEN @ ELSE (@ + 1) % Len(game.players),
            !.diceValue = IF extraTurn THEN @ ELSE NULL,
            !.killOccurred = FALSE ]

\* the turn transition leaving the capture flag as applyMove set it
afterMoveKeepsFlag(game, applied) ==
    LET extraTurn == applied.diceValue = 6 \/ applied.killOccurred
    IN  [ applied EXCEPT
            !.turn = IF extraTurn THEN @ ELSE (@ + 1) % Len(game.players),
            !.diceValue = NULL ]

\* the turn transition that ends an applied, non-winning move
afterMove(game, applied) ==
    LET extraTurn == applied.diceValue = 6 \/ applied.killOccurred
    IN  [ applied EXCEPT
            !.turn = IF extraTurn THEN @ ELSE (@ + 1) % Len(game.players),
            !.diceValue = NULL,
            !.killOccurred = FALSE ]

handleMakeMove(room, socketId, pieceIndex) ==
    /\ Handled("makeMove", room, socketId, pieceIndex)
    /\ IF gameNotFound(room)
       THEN /\ games' = games
            /\ emitted' = <<>>
       ELSE IF noCurrentPlayer(games[room])
       THEN /\ games' = games
            /\ emitted' = <<threw(socketId)>>
       ELSE IF outOfTurn(games[room], socketId)
       THEN /\ games' = games
            /\ emitted' = <<errorMessage(socketId, "It is not your turn to move.")>>
       ELSE LET game == games[room]
                playerId == currentPlayerOf(game).playerId
            IN  IF ~isValid(game.gameState, playerId, pieceIndex)
                THEN /\ games' = games
                     /\ emitted' = <<errorMessage(socketId, "Invalid move due to locked positions.")>>
                ELSE LET move == applyMove(game.gameState, playerId, pieceIndex)
                     IN  IF hasPlayerWon(move.gameState, playerId)
                         THEN /\ games' = deleteRoom(room)
                              /\ emitted' = <<[event |-> "gameOver", to |-> room, winner |-> playerId]>>
                         ELSE /\ games' = [games EXCEPT
                                    ![room].gameState = afterMove(game, move.gameState)]
                              /\ emitted' = << [ event |-> "updateGameState", to |-> room,
                                                 moveData |-> move.moveData ] >>
    /\ keys' = keysLeft(games')

\* a pass keeping the turn on a 6
afterNoMovesKeepsOnSix(game) ==
    [ game.gameState EXCEPT
        !.turn = IF game.gameState.diceValue = 6 THEN @ ELSE (@ + 1) % Len(game.players),
        !.diceValue = NULL ]

\* the turn transition of a pass
afterNoMoves(game) ==
    [ game.gameState EXCEPT
        !.turn = (@ + 1) % Len(game.players),
        !.diceValue = NULL ]

handleNoMoves(room, socketId) ==
    /\ Handled("noMoves", room, socketId, 0)
    /\ IF gameNotFound(room)
       THEN /\ games' = games
            /\ emitted' = <<>>
       ELSE IF noCurrentPlayer(games[room])
       THEN /\ games' = games
            /\ emitted' = <<threw(socketId)>>
       ELSE IF outOfTurn(games[room], socketId)
       THEN /\ games' = games
            /\ emitted' = <<errorMessage(socketId, "It is not your turn.")>>
       ELSE /\ games' = [games EXCEPT ![room].gameState = afterNoMoves(games[room])]
            /\ emitted' = <<[event |-> "updateGameState", to |-> room]>>
    /\ keys' = keysLeft(games')

----------------------------------------------------------------------------
(* Initial states: the match as joinGame starts it, and matches in         *)
(* progress.  A match in progress is given by where the pieces of the seat *)
(* in turn (m) and of the other seat (o) stand, counted in cells from the  *)
(* entry cell of the seat in turn along its route: 0..50 the track, 51..55 *)
(* its home lane, 56 Home; InBase is the piece's own base slot, AtHome the *)
(* owner's Home.                                                           *)

InBase == 0 - 1

AtHome == 0 - 2

\* the position k cells after the entry cell on the route of playerId, as
\* k applications of getNextPosition to the entry cell give it
route(playerId, k) ==
    IF k <= 50 THEN (START_POSITIONS(playerId) + k) % (TrackLast + 1)
    ELSE IF k <= 55 THEN HOME_ENTRANCE(playerId)[k - 50]
    ELSE HOME_POSITIONS(playerId)

Layouts ==
    { \* nobody has entered
      [m |-> <<InBase, InBase, InBase, InBase>>, o |-> <<InBase, InBase, InBase, InBase>>],
      \* the other seat locks the entry cell of the seat in turn
      [m |-> <<InBase, 5, InBase, InBase>>,      o |-> <<0, 0, InBase, InBase>>],
      \* the seat in turn locks its own entry cell, an opposing piece 3 ahead
      [m |-> <<0, 0, InBase, InBase>>,           o |-> <<3, InBase, InBase, InBase>>],
      \* an opposing lock 2 cells ahead
      [m |-> <<18, InBase, InBase, InBase>>,     o |-> <<20, 20, InBase, InBase>>],
      \* single opposing pieces ahead, on plain cells and on a safe cell
      [m |-> <<18, 18, InBase, InBase>>,         o |-> <<20, 21, 22, InBase>>],
      \* an own lock ahead
      [m |-> <<18, 20, 20, InBase>>,             o |-> <<InBase, InBase, InBase, AtHome>>],
      \* before the turning point, an opposing piece on it
      [m |-> <<48, 47, InBase, AtHome>>,         o |-> <<50, InBase, InBase, InBase>>],
      \* in the home lane, 3 and 1 cells from Home
      [m |-> <<53, 55, AtHome, AtHome>>,         o |-> <<InBase, InBase, InBase, InBase>>],
      \* a lock in the home lane
      [m |-> <<51, 53, 53, AtHome>>,             o |-> <<InBase, 10, InBase, InBase>>],
      \* one piece short of winning
      [m |-> <<55, AtHome, AtHome, AtHome>>,     o |-> <<InBase, InBase, AtHome, AtHome>>],
      \* an opposing lock formed on a safe cell where a piece already stood
      [m |-> <<8, 6, InBase, InBase>>,           o |-> <<8, 8, InBase, InBase>>] }

\* the positions of owner's pieces in a layout read on the route of mover
placed(codes, owner, mover) ==
    [ i \in 1..Len(codes) |->
        IF codes[i] = InBase THEN BASE_POSITIONS(owner)[i]
        ELSE IF codes[i] = AtHome THEN HOME_POSITIONS(owner)
        ELSE route(mover, codes[i]) ]

inProgress(layout, turn) ==
    LET mover == at(StartedPlayers, turn).playerId
        other == at(StartedPlayers, 1 - turn).playerId
        currentPositions ==
            [ p \in {mover, other} |->
                IF p = mover THEN placed(layout.m, mover, mover)
                ELSE placed(layout.o, other, mover) ]
    IN  [ initializeGameState(StartedPlayers) EXCEPT
            !.currentPositions = currentPositions,
            !.turn = turn,
            !.lockedPositions = updateLockedPositions(currentPositions) ]

Init ==
    /\ \E layout \in Layouts, turn \in {0, 1} :
          games = [r \in {Room} |->
                     [players |-> StartedPlayers, gameState |-> inProgress(layout, turn)]]
    /\ last = [op |-> "joinGame", room |-> Room, socketId |-> "s2", pieceIndex |-> 0]
    /\ pre = games
    /\ emitted = <<>>
    /\ steps = 0
    /\ call = [fn |-> "none"]
    /\ keys = <<Room>>
    /\ conn = [s \in Sockets |-> Room]
    /\ clients = <<>>
    /\ wire = <<>>

\* the server taken alone: the intents reach it from connections whose
\* clients are not followed
serverAlone == UNCHANGED <<clients, wire>>

Next ==
    \E socketId \in Sockets :
        \/ handleDiceRoll(Room, socketId) /\ serverAlone
        \/ \E pieceIndex \in PieceIndexes :
              handleMakeMove(Room, socketId, pieceIndex) /\ serverAlone
        \/ handleNoMoves(Room, socketId) /\ serverAlone

Spec == Init /\ [][Next]_vars

----------------------------------------------------------------------------
(* The lobby: connections join, are paired into rooms, play and leave.     *)
(* The client sends joinGame when it is constructed                        *)
(* (src/front/public/js/Ludo.js:33); the server takes the event whenever a *)
(* connection sends it, so a connection may send it again.  The handlers   *)
(* of a connection's intents and of its disconnection are bound to the     *)
(* room it joined.  A connection that has joined a second time has every   *)
(* handler registered twice; its later events are not followed.            *)

LobbySockets == {"s1", "s2", "s3", "s4"}

\* `room-${socket.id}`
roomName(socketId) ==
    CASE socketId = "s1" -> "room-s1"
      [] socketId = "s2" -> "room-s2"
      [] socketId = "s3" -> "room-s3"
      [] OTHER -> "room-s4"

\* the connection has joined a room, once, and has not disconnected
isBound(socketId) == conn[socketId] \notin {"none", "gone", "twice"}

\* findAvailableRoom: the first room of the table with fewer than 2 players
findAvailableRoom ==
    LET open(r) == Len(games[r].players) < 2
        available == SelectSeq(keys, open)
    IN  IF Len(available) > 0 THEN available[1] ELSE "null"

\* the playerId assignPlayerId finds for a players array, "null" for none
availablePlayerId(players) ==
    LET existingPlayerIds == { players[k].playerId : k \in 1..Len(players) }
        free(id) == id \notin existingPlayerIds
        possible == SelectSeq(PLAYERS, free)
    IN  IF Len(possible) > 0 THEN possible[1] ELSE "null"

\* the game state a room starts with: initializeGameState and then
\* updateLockedPositions
startedGameState(players) ==
    LET gameState == initializeGameState(players)
    IN  [ gameState EXCEPT
            !.lockedPositions = updateLockedPositions(gameState.currentPositions) ]

\* what joinGame, disconnect record of the event they were called for
Noted(op, room, socketId) ==
    /\ steps < MaxIntents
    /\ steps' = steps + 1
    /\ pre' = games
    /\ last' = [op |-> op, room |-> room, socketId |-> socketId, pieceIndex |-> 0]
    /\ call' = call

joinGame(socketId) ==
    /\ conn[socketId] \notin {"gone", "twice"}
    /\ LET found == findAvailableRoom
           room == IF found = "null" THEN roomName(socketId) ELSE found
           created == IF found = "null"
                      THEN [ r \in DOMAIN games \cup {room} |->
                               IF r = room THEN [players |-> <<>>] ELSE games[r] ]
                      ELSE games
           playerId == availablePlayerId(created[room].players)
           players == Append(created[room].players,
                             [socketId |-> socketId, playerId |-> playerId])
       IN  /\ Noted("joinGame", room, socketId)
           /\ keys' = IF room \in DOMAIN games THEN keys ELSE Append(keys, room)
           /\ IF playerId = "null"
              THEN /\ games' = created
                   /\ emitted' = <<errorMessage(socketId, "Room is full.")>>
                   /\ conn' = conn
              ELSE /\ conn' = [conn EXCEPT ![socketId] =
                                 IF conn[socketId] = "none" THEN room ELSE "twice"]
                   /\ IF Len(players) = 2
                      THEN /\ games' = [ created EXCEPT ![room] =
                                           [ players |-> players,
                                             gameState |-> startedGameState(players) ] ]
                           /\ emitted' =
                                 << [ event |-> "playerAssigned", to |-> socketId,
                                      playerId |-> playerId, room |-> room ],
                                    [ event |-> "startGame", to |-> room,
                                      gameState |-> startedGameState(players),
                                      players |-> [ k \in 1..Len(players) |->
                                                      players[k].playerId ] ] >>
                      ELSE /\ games' = [created EXCEPT ![room].players = players]
                           /\ emitted' =
                                 << [ event |-> "playerAssigned", to |-> socketId,
                                      playerId |-> playerId, room |-> room ] >>

\* the players array without the player of the connection
playersLeft(players, socketId) ==
    LET stays(player) == player.socketId # socketId
    IN  SelectSeq(players, stays)

handleDisconnect(room, socketId) ==
    /\ Noted("disconnect", room, socketId)
    /\ conn' = [conn EXCEPT ![socketId] = "gone"]
    /\ IF room \notin DOMAIN games
       THEN /\ games' = games
            /\ emitted' = <<>>
       ELSE IF Len(playersLeft(games[room].players, socketId)) > 0
       THEN /\ games' = [ games EXCEPT ![room].players =
                            playersLeft(games[room].players, socketId) ]
            /\ emitted' = << [ event |-> "opponentLeft", to |-> room,
                               message |-> "Your opponent has left the game." ] >>
       ELSE /\ games' = deleteRoom(room)
            /\ emitted' = <<>>
    /\ keys' = keysLeft(games')

\* matches in progress in the first room the lobby starts from
LobbyLayouts ==
    { layout \in Layouts : layout.m[1] \in {18, 55} /\ layout.m[2] \in {18, AtHome} }

\* the server as it starts, or two rooms with a match each: the first one
\* in progress, the second one just started
InitLobby ==
    /\ \/ /\ games = <<>>
          /\ keys = <<>>
          /\ conn = [s \in LobbySockets |-> "none"]
          /\ last = [op |-> "none", room |-> "null", socketId |-> "s1", pieceIndex |-> 0]
       \/ /\ \E layout \in LobbyLayouts, turn \in {0, 1} :
                games = [ r \in {"room-s1", "room-s3"} |->
                            IF r = "room-s1"
                            THEN [ players |-> StartedPlayers,
                                   gameState |-> inProgress(layout, turn) ]
                            ELSE [ players |->
                                     << [socketId |-> "s3", playerId |-> "P1"],
                                        [socketId |-> "s4", playerId |-> "P3"] >>,
                                   gameState |-> startedGameState(StartedPlayers) ] ]
          /\ keys = <<"room-s1", "room-s3">>
          /\ conn = [ s \in LobbySockets |->
                        IF s \in {"s1", "s2"} THEN "room-s1" ELSE "room-s3" ]
          /\ last = [op |-> "joinGame", room |-> "room-s3", socketId |-> "s4", pieceIndex |-> 0]
    /\ pre = games
    /\ emitted = <<>>
    /\ steps = 0
    /\ call = [fn |-> "none"]
    /\ clients = <<>>
    /\ wire = <<>>

NextLobby ==
    \E socketId \in LobbySockets :
        \/ joinGame(socketId) /\ serverAlone
        \/ isBound(socketId) /\ handleDisconnect(conn[socketId], socketId) /\ serverAlone
        \/ isBound(socketId) /\ handleDiceRoll(conn[socketId], socketId) /\ serverAlone
        \/ isBound(socketId) /\ serverAlone
                              /\ \E pieceIndex \in PieceIndexes :
                                    handleMakeMove(conn[socketId], socketId, pieceIndex)
        \/ isBound(socketId) /\ handleNoMoves(conn[socketId], socketId) /\ serverAlone

SpecLobby == InitLobby /\ [][NextLobby]_vars

----------------------------------------------------------------------------
(* The path function taken alone: getPath called for every seat, every     *)
(* track and home-lane position and every dice value.                      *)

TrackCells == 0..TrackLast

HomeLaneCells(playerId) == { HOME_ENTRANCE(playerId)[k] : k \in 1..Len(HOME_ENTRANCE(playerId)) }

InitPath ==
    /\ games = <<>>
    /\ pre = <<>>
    /\ last = [op |-> "none", room |-> Room, socketId |-> "s1", pieceIndex |-> 0]
    /\ emitted = <<>>
    /\ steps = 0
    /\ keys = <<>>
    /\ conn = <<>>
    /\ clients = <<>>
    /\ wire = <<>>
    /\ \E player \in PlayerIds, diceValue \in 1..DiceSides :
          \E currentPosition \in TrackCells \cup HomeLaneCells(player) :
             call = [ fn |-> "getPath", player |-> player,
                      currentPosition |-> currentPosition, diceValue |-> diceValue,
                      done |-> FALSE, path |-> <<>> ]

callGetPath ==
    /\ ~call.done
    /\ call' = [ call EXCEPT
                   !.done = TRUE,
                   !.path = getPath(call.player, call.currentPosition, call.diceValue) ]
    /\ UNCHANGED <<games, last, pre, emitted, steps, keys, conn, clients, wire>>

NextPath == callGetPath

SpecPath == InitPath /\ [][NextPath]_vars

----------------------------------------------------------------------------
(* The successor function taken alone: getNextPosition called for every    *)
(* seat and every cell of the track and of the seat's home lane.           *)

InitStep ==
    /\ games = <<>>
    /\ pre = <<>>
    /\ last = [op |-> "none", room |-> Room, socketId |-> "s1", pieceIndex |-> 0]
    /\ emitted = <<>>
    /\ steps = 0
    /\ keys = <<>>
    /\ conn = <<>>
    /\ clients = <<>>
    /\ wire = <<>>
    /\ \E playerId \in PlayerIds :
          \E currentPosition \in TrackCells \cup HomeLaneCells(playerId) :
             call = [ fn |-> "getNextPosition", playerId |-> playerId,
                      currentPosition |-> currentPosition,
                      done |-> FALSE, next |-> currentPosition ]

callGetNextPosition ==
    /\ ~call.done
    /\ call' = [ call EXCEPT
                   !.done = TRUE,
                   !.next = getNextPosition(call.playerId, call.currentPosition) ]
    /\ UNCHANGED <<games, last, pre, emitted, steps, keys, conn, clients, wire>>

NextStep == callGetNextPosition

SpecStep == InitStep /\ [][NextStep]_vars

----------------------------------------------------------------------------
(* Move intents that name a piece the seat does not have.  `data.pieceIndex` *)
(* comes from the connection as it is; the handler reads it without a       *)
(* check.  Behaviours are followed up to the first move that grows a        *)
(* position array.                                                          *)

\* the largest piece index a connection sends
MaxPieceIndex == 4

\* every position array of the match still has its four entries
fourEach ==
    Room \in DOMAIN games =>
        \A p \in DOMAIN games[Room].gameState.currentPositions :
            Len(games[Room].gameState.currentPositions[p]) = Cardinality(PieceIndexes)

InitIndex == Init

NextIndex ==
    \E socketId \in Sockets :
        \/ fourEach /\ handleDiceRoll(Room, socketId) /\ serverAlone
        \/ fourEach /\ serverAlone
                    /\ \E pieceIndex \in 0..MaxPieceIndex :
                          handleMakeMove(Room, socketId, pieceIndex)
        \/ fourEach /\ handleNoMoves(Room, socketId) /\ serverAlone

SpecIndex == InitIndex /\ [][NextIndex]_vars

----------------------------------------------------------------------------
(* The two clients of a match and the server together.  A client is the    *)
(* first declaration of class Ludo in src/front/public/js/Ludo.js with its *)
(* page (src/front/public/js/UI.js): the fields the handlers read and      *)
(* write, whether the dice button is enabled, and which of its pieces are  *)
(* highlighted.  A click emits an intent onto the wire; the server takes   *)
(* the intents in the order they were emitted, and what its handler emits  *)
(* reaches both clients before the next intent is taken, the animation of  *)
(* a move (Ludo.js:149-167) having ended on the last cell of its path.     *)
(* constants.js is not part of the sources at hand: the client's tables    *)
(* are taken to be the server's, and STATE to name its members.            *)

DICE_NOT_ROLLED == "DICE_NOT_ROLLED"

DICE_ROLLED == "DICE_ROLLED"

WAITING_FOR_OPPONENT == "WAITING_FOR_OPPONENT"

\* `this.players[this.turn]`
getCurrentPlayerId(client) == at(client.players, client.turn)

\* the indices of the player's pieces that stand on a cell the player locks
getLockedPieces(client, player) ==
    { index \in 0..(Len(client.currentPositions[player]) - 1) :
        isPositionLocked(client, at(client.currentPositions[player], index)) = player }

isMoveBlocked(client, player, currentPosition, diceValue) ==
    LET path == getPath(player, currentPosition, diceValue)
    IN  \E k \in 1..Len(path) :
            LET lockOwner == isPositionLocked(client, path[k])
            IN  lockOwner # "null" /\ lockOwner # player

\* the piece indices getEligiblePieces returns
getEligiblePieces(client, player) ==
    LET pieces == client.currentPositions[player]
        diceValue == client.diceValue
        lockedPieces == getLockedPieces(client, player)
        pushed(pieceIndex) ==
            LET currentPosition == at(pieces, pieceIndex)
            IN  IF currentPosition = HOME_POSITIONS(player)
                THEN FALSE
                ELSE IF includes(BASE_POSITIONS(player), currentPosition)
                THEN /\ diceValue = 6
                     /\ LET lockOwner == isPositionLocked(client, START_POSITIONS(player))
                        IN  lockOwner = "null" \/ lockOwner = player
                ELSE IF /\ includes(HOME_ENTRANCE(player), currentPosition)
                        /\ diceValue > Len(HOME_ENTRANCE(player))
                                         - indexOf(HOME_ENTRANCE(player), currentPosition)
                THEN FALSE
                ELSE ~isMoveBlocked(client, player, currentPosition, diceValue)
        eligiblePieces == { pieceIndex \in 0..(Len(pieces) - 1) : pushed(pieceIndex) }
        movableLockedPieces ==
            { pieceIndex \in lockedPieces :
                ~isMoveBlocked(client, player, at(pieces, pieceIndex), diceValue) }
    IN  IF lockedPieces # {} /\ movableLockedPieces # {}
        THEN movableLockedPieces
        ELSE eligiblePieces

\* an intent on its way to the server
intent(socketId, op, pieceIndex) ==
    [from |-> socketId, op |-> op, pieceIndex |-> pieceIndex]

\* checkForEligiblePieces: the client it leaves and the intents it emits
checkForEligiblePieces(client, socketId) ==
    LET eligiblePieces == getEligiblePieces(client, client.playerId)
    IN  IF eligiblePieces # {}
        THEN [ client |-> [client EXCEPT !.highlighted = @ \cup eligiblePieces],
               out |-> <<>> ]
        ELSE [ client |-> client, out |-> <<intent(socketId, "noMoves", 0)>> ]

onDiceRolled(client, socketId, event) ==
    LET shown == [client EXCEPT !.diceValue = event.diceValue, !.highlighted = {}]
    IN  IF event.playerId = shown.playerId
        THEN checkForEligiblePieces([shown EXCEPT !.state = DICE_ROLLED], socketId)
        ELSE [ client |-> [shown EXCEPT !.state = WAITING_FOR_OPPONENT], out |-> <<>> ]

onUpdateGameState(client, gameState) ==
    LET copied == [ client EXCEPT
                      !.currentPositions = gameState.currentPositions,
                      !.lockedPositions = gameState.lockedPositions,
                      !.turn = gameState.turn,
                      !.diceValue = gameState.diceValue ]
    IN  IF getCurrentPlayerId(copied) = copied.playerId
        THEN IF copied.state # DICE_ROLLED
             THEN [copied EXCEPT !.state = DICE_NOT_ROLLED, !.diceEnabled = TRUE]
             ELSE copied
        ELSE [copied EXCEPT !.state = WAITING_FOR_OPPONENT, !.diceEnabled = FALSE]

\* the listeners of setupSocketListeners run on the events a handler emitted
\* (at most one, to the room or to the sender) over the room table it left;
\* onErrorMessage and onGameOver only alert
heard(socketId, table, events) ==
    LET client == clients[socketId]
        mine(event) == event.to = Room \/ event.to = socketId
    IN  IF Len(events) = 0 \/ ~mine(events[1])
        THEN [client |-> client, out |-> <<>>]
        ELSE IF events[1].event = "diceRolled"
        THEN onDiceRolled(client, socketId, events[1])
        ELSE IF events[1].event = "updateGameState"
        THEN [client |-> onUpdateGameState(client, table[Room].gameState), out |-> <<>>]
        ELSE [client |-> client, out |-> <<>>]

\* a click on the dice button, which the page delivers while the button is
\* not disabled; the click that only alerts changes nothing
onDiceClick(socketId) ==
    LET client == clients[socketId]
    IN  /\ client.diceEnabled
        /\ ~(client.state # DICE_NOT_ROLLED \/ client.playerId # getCurrentPlayerId(client))
        /\ wire' = Append(wire, intent(socketId, "rollDice", 0))
        /\ clients' = [clients EXCEPT ![socketId].diceEnabled = FALSE]
        /\ UNCHANGED <<games, last, pre, emitted, steps, call, keys, conn>>

\* a click on a highlighted piece, with handlePieceClick
onPieceClick(socketId, piece) ==
    LET client == clients[socketId]
    IN  /\ piece \in client.highlighted
        /\ ~(client.state # DICE_ROLLED \/ client.playerId # getCurrentPlayerId(client))
        /\ wire' = Append(wire, intent(socketId, "makeMove", piece))
        /\ clients' = [clients EXCEPT ![socketId].state = DICE_NOT_ROLLED,
                                      ![socketId].highlighted = {}]
        /\ UNCHANGED <<games, last, pre, emitted, steps, call, keys, conn>>

\* the clients hear what the handler emitted; what they emit in turn follows
\* the intents already on the wire
answered ==
    LET first == heard(StartedPlayers[1].socketId, games', emitted')
        second == heard(StartedPlayers[2].socketId, games', emitted')
    IN  /\ clients' = [ s \in Sockets |->
                          IF s = StartedPlayers[1].socketId
                          THEN first.client ELSE second.client ]
        /\ wire' = Tail(wire) \o first.out \o second.out

\* the server takes the next intent of the wire
taken(op) == wire # <<>> /\ Head(wire).op = op

\* the client of a seat as onUpdateGameState leaves it when it hands the
\* turn to a seat
settled(socketId, playerId, gameState) ==
    LET current == at(StartedPlayers, gameState.turn).playerId
    IN  [ playerId |-> playerId,
          players |-> [k \in 1..Len(StartedPlayers) |-> StartedPlayers[k].playerId],
          currentPositions |-> gameState.currentPositions,
          lockedPositions |-> gameState.lockedPositions,
          turn |-> gameState.turn,
          diceValue |-> gameState.diceValue,
          state |-> IF current = playerId THEN DICE_NOT_ROLLED ELSE WAITING_FOR_OPPONENT,
          diceEnabled |-> current = playerId,
          highlighted |-> {} ]

InitClient ==
    /\ \E layout \in Layouts, turn \in {0, 1} :
          games = [r \in {Room} |->
                     [players |-> StartedPlayers, gameState |-> inProgress(layout, turn)]]
    /\ last = [op |-> "joinGame", room |-> Room, socketId |-> "s2", pieceIndex |-> 0]
    /\ pre = games
    /\ emitted = <<>>
    /\ steps = 0
    /\ call = [fn |-> "none"]
    /\ keys = <<Room>>
    /\ conn = [s \in Sockets |-> Room]
    /\ clients = [ s \in Sockets |->
                     LET k == CHOOSE k \in 1..Len(StartedPlayers) :
                                  StartedPlayers[k].socketId = s
                     IN  settled(s, StartedPlayers[k].playerId, games[Room].gameState) ]
    /\ wire = <<>>

NextClient ==
    \/ \E socketId \in Sockets : onDiceClick(socketId)
    \/ \E socketId \in Sockets, piece \in PieceIndexes : onPieceClick(socketId, piece)
    \/ taken("rollDice") /\ handleDiceRoll(Room, Head(wire).from) /\ answered
    \/ taken("makeMove") /\ handleMakeMove(Room, Head(wire).from, Head(wire).pieceIndex)
                         /\ answered
    \/ taken("noMoves") /\ handleNoMoves(Room, Head(wire).from) /\ answered

SpecClient == InitClient /\ [][NextClient]_vars

----------------------------------------------------------------------------
(* Vocabulary of the properties: the last intent, read against the state   *)
(* it was handled in (pre) and the state it left (games).                  *)

HadGame == Room \in DOMAIN pre

PreState == pre[Room].gameState

\* the seat whose turn it was, and the other seat
Mover == at(pre[Room].players, PreState.turn).playerId

Other == at(pre[Room].players, 1 - PreState.turn).playerId

\* the intent came from the connection of the seat in turn
InTurn == HadGame /\ at(pre[Room].players, PreState.turn).socketId = last.socketId

NotInTurn == HadGame /\ at(pre[Room].players, PreState.turn).socketId # last.socketId

IsIntent == last.op \in {"rollDice", "makeMove", "noMoves"}

\* the sender alone got an error message, nothing was broadcast
Rejected ==
    /\ Len(emitted) = 1
    /\ emitted[1].event = "errorMessage"
    /\ emitted[1].to = last.socketId

\* the room got a new state, or the end of the game
Accepted ==
    /\ Len(emitted) = 1
    /\ emitted[1].event \in {"updateGameState", "gameOver", "diceRolled"}
    /\ emitted[1].to = last.room

Untouched == games = pre

\* the position the piece of the move intent had, and has now
MovedFrom == at(PreState.currentPositions[Mover], last.pieceIndex)

MovedTo == at(games[Room].gameState.currentPositions[Mover], last.pieceIndex)

\* the owner of the lock on a cell before the intent, "null" for none
PreLockOwner(position) ==
    IF position \in DOMAIN PreState.lockedPositions
    THEN PreState.lockedPositions[position]
    ELSE "null"

\* position kinds of the data model
IsBase(playerId, position) == includes(BASE_POSITIONS(playerId), position)

IsTrack(position) == position \in 0..TrackLast

IsHomeLane(playerId, position) == includes(HOME_ENTRANCE(playerId), position)

IsHome(playerId, position) == position = HOME_POSITIONS(playerId)

\* how many cells after its entry cell a seat's track or home-lane cell lies
routeIndex(playerId, position) ==
    CHOOSE k \in 0..56 : route(playerId, k) = position

\* cells left to Home for a piece on the track or in the home lane
cellsToHome(playerId, position) == 56 - routeIndex(playerId, position)

\* the cells a piece on the track or in the home lane crosses with d pips,
\* the last one being where it lands, as far as Home
RECURSIVE cellsAhead(_, _, _)
cellsAhead(playerId, position, d) ==
    IF d <= 0 \/ IsHome(playerId, position) THEN {}
    ELSE LET next == getNextPosition(playerId, position)
         IN  {next} \cup cellsAhead(playerId, next, d - 1)

----------------------------------------------------------------------------
(* C1 *)

\* C1: a move intent of the seat in turn that validateMove rejects leaves
\* the whole match state (positions of both seats, turn, dice value, kill
\* flag, lock map) as it was, and only an error message goes to the sender.
C1_RejectedMoveLeavesState ==
    ( /\ last.op = "makeMove"
      /\ InTurn
      /\ ~validateMove(PreState, Mover, last.pieceIndex) )
    => (Untouched /\ Rejected)

\* a move of a piece on the track refused with a dice value pending
C1_Witness ==
    /\ last.op = "makeMove"
    /\ InTurn
    /\ ~validateMove(PreState, Mover, last.pieceIndex)
    /\ PreState.diceValue # NULL
    /\ IsTrack(MovedFrom)
    /\ Rejected

----------------------------------------------------------------------------
(* C2 *)

\* C2: a roll, move or pass sent by the seat that is not in turn is refused
\* with an error to the sender and changes nothing of the match state.
C2_OnlySeatInTurnActs ==
    (IsIntent /\ NotInTurn) => (Untouched /\ Rejected)

\* the seat not in turn tried to roll while the seat in turn had a dice value
C2_Witness ==
    /\ last.op = "rollDice"
    /\ NotInTurn
    /\ PreState.diceValue # NULL
    /\ Rejected

----------------------------------------------------------------------------
(* C3 *)

\* C3: a roll by the seat in turn while a dice value is pending is refused:
\* the pending value stays and the sender gets an error.
C3_PendingDiceNotRerolled ==
    ( /\ last.op = "rollDice"
      /\ InTurn
      /\ PreState.diceValue # NULL )
    => (Untouched /\ Rejected)

----------------------------------------------------------------------------
(* C4 *)

\* C4: a move of the seat in turn with no dice value pending is refused for
\* every piece, and neither the positions nor the turn change.
C4_MoveWithoutRollRejected ==
    ( /\ last.op = "makeMove"
      /\ InTurn
      /\ PreState.diceValue = NULL )
    => ( /\ Rejected
         /\ Room \in DOMAIN games
         /\ games[Room].gameState.currentPositions = PreState.currentPositions
         /\ games[Room].gameState.turn = PreState.turn )

----------------------------------------------------------------------------
(* C5 *)

\* C5: a pass of the seat in turn with no dice value pending is refused and
\* the turn stays.
C5_PassWithoutRollRejected ==
    ( /\ last.op = "noMoves"
      /\ InTurn
      /\ PreState.diceValue = NULL )
    => ( /\ Rejected
         /\ games[Room].gameState.turn = PreState.turn )

----------------------------------------------------------------------------
(* C6 *)

\* a piece of playerId that was in Base before the intent and is not now
LeftBase(playerId, i) ==
    /\ IsBase(playerId, at(PreState.currentPositions[playerId], i))
    /\ ~IsBase(playerId, at(games[Room].gameState.currentPositions[playerId], i))

\* C6: a piece leaves Base only as the piece of an accepted move of its seat
\* made on a pending dice value of 6; and a move of a piece on the track or
\* in the home lane made on a pending value other than 6 is refused only
\* when a cell it would cross is locked by the other seat or the value
\* exceeds the cells left to Home.
C6_SixNeededOnlyToLeaveBase ==
    /\ (IsIntent /\ HadGame /\ Room \in DOMAIN games) =>
          \A playerId \in PlayerIds, i \in PieceIndexes :
              LeftBase(playerId, i) =>
                  /\ last.op = "makeMove"
                  /\ InTurn
                  /\ playerId = Mover
                  /\ i = last.pieceIndex
                  /\ PreState.diceValue = 6
                  /\ Accepted
    /\ ( /\ last.op = "makeMove"
         /\ InTurn
         /\ PreState.diceValue \in 1..5
         /\ (IsTrack(MovedFrom) \/ IsHomeLane(Mover, MovedFrom))
         /\ Rejected )
       => \/ \E c \in cellsAhead(Mover, MovedFrom, PreState.diceValue) :
                PreLockOwner(c) = Other
          \/ PreState.diceValue > cellsToHome(Mover, MovedFrom)

\* a piece went from Base to the entry cell on a 6
C6_Witness ==
    /\ last.op = "makeMove"
    /\ InTurn
    /\ Room \in DOMAIN games
    /\ LeftBase(Mover, last.pieceIndex)
    /\ PreState.diceValue = 6
    /\ MovedTo = START_POSITIONS(Mover)

----------------------------------------------------------------------------
(* C7 *)

\* C7: on a pending 6, the move of a Base piece is refused exactly when the
\* entry cell of its seat is locked by the other seat; it is accepted when
\* the cell is unlocked or locked by the mover's own seat.
C7_BaseEntryAndLock ==
    ( /\ last.op = "makeMove"
      /\ InTurn
      /\ PreState.diceValue = 6
      /\ IsBase(Mover, MovedFrom) )
    => /\ PreLockOwner(START_POSITIONS(Mover)) = Other => (Rejected /\ Untouched)
       /\ PreLockOwner(START_POSITIONS(Mover)) # Other =>
             (Accepted /\ MovedTo = START_POSITIONS(Mover))

\* a 6 that could not bring a piece out: the other seat locks the entry cell
C7_Witness ==
    /\ last.op = "makeMove"
    /\ InTurn
    /\ PreState.diceValue = 6
    /\ IsBase(Mover, MovedFrom)
    /\ PreLockOwner(START_POSITIONS(Mover)) = Other
    /\ Rejected

----------------------------------------------------------------------------
(* C8 *)

\* the cells the piece of an accepted move went over, the landing cell last
Travelled ==
    IF IsBase(Mover, MovedFrom)
    THEN {START_POSITIONS(Mover)}
    ELSE cellsAhead(Mover, MovedFrom, PreState.diceValue)

\* C8: no accepted move goes over or onto a cell the other seat locks; and a
\* move of a piece on the track or in the home lane, within the cells left
\* to Home, that meets locks of its own seat only is accepted.
C8_OpposingLockBlocksPath ==
    /\ ( /\ last.op = "makeMove"
         /\ InTurn
         /\ Accepted )
       => \A c \in Travelled : PreLockOwner(c) # Other
    /\ ( /\ last.op = "makeMove"
         /\ InTurn
         /\ PreState.diceValue \in 1..DiceSides
         /\ (IsTrack(MovedFrom) \/ IsHomeLane(Mover, MovedFrom))
         /\ PreState.diceValue <= cellsToHome(Mover, MovedFrom)
         /\ \A c \in cellsAhead(Mover, MovedFrom, PreState.diceValue) :
               PreLockOwner(c) # Other )
       => Accepted

\* a move refused because it would pass over, not land on, an opposing lock
C8_Witness ==
    /\ last.op = "makeMove"
    /\ InTurn
    /\ IsTrack(MovedFrom)
    /\ Rejected
    /\ \E c \in cellsAhead(Mover, MovedFrom, PreState.diceValue - 1) :
          PreLockOwner(c) = Other
    /\ \A c \in cellsAhead(Mover, MovedFrom, PreState.diceValue) \
                cellsAhead(Mover, MovedFrom, PreState.diceValue - 1) :
          PreLockOwner(c) # Other

\* a move accepted over a lock of the mover's own seat
C8_OwnLockCrossed ==
    /\ last.op = "makeMove"
    /\ InTurn
    /\ Accepted
    /\ ~IsBase(Mover, MovedFrom)
    /\ \E c \in cellsAhead(Mover, MovedFrom, PreState.diceValue) :
          PreLockOwner(c) = Mover

----------------------------------------------------------------------------
(* C9 *)

\* C9: a move of a home-lane piece on a dice value greater than the cells
\* left to Home is refused and changes nothing.
C9_OvershootRejected ==
    ( /\ last.op = "makeMove"
      /\ InTurn
      /\ IsHomeLane(Mover, MovedFrom)
      /\ PreState.diceValue > cellsToHome(Mover, MovedFrom) )
    => (Rejected /\ Untouched)

----------------------------------------------------------------------------
(* C10 *)

\* 0 Base, 1 Track, 2 Home-lane, 3 Home, 4 for a position of no kind
Kind(playerId, position) ==
    IF IsBase(playerId, position) THEN 0
    ELSE IF IsTrack(position) THEN 1
    ELSE IF IsHomeLane(playerId, position) THEN 2
    ELSE IF IsHome(playerId, position) THEN 3
    ELSE 4

\* C10: every piece is on one of its seat's Base slots, a track cell 0..51,
\* one of its seat's home-lane cells or its seat's Home, and an intent
\* either keeps a piece's kind, advances it in the order Base, Track,
\* Home-lane, Home, or sends a Track piece back to its own Base slot.
C10_PositionKindsAdvance ==
    (HadGame /\ Room \in DOMAIN games) =>
        \A playerId \in PlayerIds, i \in PieceIndexes :
            LET before == at(PreState.currentPositions[playerId], i)
                after == at(games[Room].gameState.currentPositions[playerId], i)
            IN  /\ Kind(playerId, after) # 4
                /\ \/ Kind(playerId, after) >= Kind(playerId, before)
                   \/ /\ Kind(playerId, before) = 1
                      /\ after = at(BASE_POSITIONS(playerId), i)

----------------------------------------------------------------------------
(* C11 *)

\* C11: a piece standing on its seat's Home keeps that position through
\* every roll, move and pass of either seat, as long as the match exists.
C11_HomeIsTerminal ==
    (IsIntent /\ HadGame /\ Room \in DOMAIN games) =>
        \A playerId \in PlayerIds, i \in PieceIndexes :
            IsHome(playerId, at(PreState.currentPositions[playerId], i)) =>
                IsHome(playerId, at(games[Room].gameState.currentPositions[playerId], i))

\* the seat in turn tried to move a piece standing on Home on a pending
\* dice value and was refused
C11_Witness ==
    /\ last.op = "makeMove"
    /\ InTurn
    /\ PreState.diceValue # NULL
    /\ IsHome(Mover, MovedFrom)
    /\ Rejected
    /\ IsHome(Mover, MovedTo)

----------------------------------------------------------------------------
(* C12 *)

\* the move of the seat in turn was applied and the match goes on
AppliedMove ==
    /\ last.op = "makeMove"
    /\ InTurn
    /\ Room \in DOMAIN games
    /\ Len(emitted) = 1
    /\ emitted[1].event = "updateGameState"

\* the opposing pieces that stood on a cell before the intent
OpposingOn(position) ==
    { i \in PieceIndexes : at(PreState.currentPositions[Other], i) = position }

\* the opposing pieces whose position the intent changed
OpposingMoved ==
    { i \in PieceIndexes :
        at(games[Room].gameState.currentPositions[Other], i)
            # at(PreState.currentPositions[Other], i) }

\* C12: an applied move that lands on a safe cell, or on a cell the lock map
\* gives to either seat, captures nothing: no opposing piece changes
\* position, the movement data list no killed piece and report no kill, and
\* the turn stays with the mover only for a dice value of 6.
C12_NoCaptureOnSafeOrLocked ==
    ( /\ AppliedMove
      /\ (MovedTo \in SAFE_POSITIONS \/ PreLockOwner(MovedTo) # "null") )
    => /\ OpposingMoved = {}
       /\ emitted[1].moveData.killedPieces = <<>>
       /\ ~emitted[1].moveData.killOccurred
       /\ (games[Room].gameState.turn = PreState.turn => PreState.diceValue = 6)

\* a piece landed on a safe cell where an opposing piece stood, which stays
C12_Witness ==
    /\ AppliedMove
    /\ MovedTo # MovedFrom
    /\ MovedTo \in SAFE_POSITIONS
    /\ OpposingOn(MovedTo) # {}
    /\ OpposingMoved = {}
    /\ games[Room].gameState.turn # PreState.turn

----------------------------------------------------------------------------
(* C13 *)

\* the (seat, piece index) pairs of the killedPieces of the movement data
KilledPairs ==
    { emitted[1].moveData.killedPieces[k] :
        k \in 1..Len(emitted[1].moveData.killedPieces) }

\* C13: an applied move that lands on a cell neither safe nor locked sends
\* every opposing piece that stood on that cell to the Base slot of its own
\* index, lists exactly those pieces as killed, once each, and changes the
\* position of no other piece than the moved one.
C13_CaptureSendsToOwnBaseSlot ==
    ( /\ AppliedMove
      /\ MovedTo \notin SAFE_POSITIONS
      /\ PreLockOwner(MovedTo) = "null" )
    => /\ \A i \in PieceIndexes :
             at(games[Room].gameState.currentPositions[Other], i) =
                 IF i \in OpposingOn(MovedTo)
                 THEN at(BASE_POSITIONS(Other), i)
                 ELSE at(PreState.currentPositions[Other], i)
       /\ KilledPairs = { [opponentId |-> Other, pieceIndex |-> i] : i \in OpposingOn(MovedTo) }
       /\ Len(emitted[1].moveData.killedPieces) = Cardinality(OpposingOn(MovedTo))
       /\ \A i \in PieceIndexes \ {last.pieceIndex} :
             at(games[Room].gameState.currentPositions[Mover], i) =
                 at(PreState.currentPositions[Mover], i)

\* the opposing piece of index 2 was captured and stands on its Base slot
C13_Witness ==
    /\ AppliedMove
    /\ MovedTo \notin SAFE_POSITIONS
    /\ PreLockOwner(MovedTo) = "null"
    /\ OpposingOn(MovedTo) = {2}
    /\ at(games[Room].gameState.currentPositions[Other], 2) = at(BASE_POSITIONS(Other), 2)
    /\ Len(emitted[1].moveData.killedPieces) = 1

----------------------------------------------------------------------------
(* C14 *)

\* C14: after an applied move that does not win, the turn is still the
\* mover's exactly when the dice value it was made on was 6 or an opposing
\* piece was captured; otherwise the turn is the other seat's.
C14_RepeatTurnOnSixOrCapture ==
    AppliedMove =>
        /\ games[Room].gameState.turn = PreState.turn
              <=> (PreState.diceValue = 6 \/ OpposingMoved # {})
        /\ games[Room].gameState.turn # PreState.turn
              => games[Room].gameState.turn = 1 - PreState.turn

\* a capture on a dice value other than 6 kept the turn with the mover
C14_Witness ==
    /\ AppliedMove
    /\ PreState.diceValue \in 1..5
    /\ OpposingMoved # {}
    /\ games[Room].gameState.turn = PreState.turn

----------------------------------------------------------------------------
(* C15 *)

\* the pass of the seat in turn was taken
AppliedPass ==
    /\ last.op = "noMoves"
    /\ InTurn
    /\ Room \in DOMAIN games
    /\ Len(emitted) = 1
    /\ emitted[1].event = "updateGameState"

\* C15: right after an applied move or pass no dice value is pending,
\* whether the turn stayed or went to the other seat.
C15_DiceClearedOnTransition ==
    (AppliedMove \/ AppliedPass) => games[Room].gameState.diceValue = NULL

\* a move on a 6 kept the turn and still cleared the dice value
C15_Witness ==
    /\ AppliedMove
    /\ PreState.diceValue = 6
    /\ games[Room].gameState.turn = PreState.turn
    /\ games[Room].gameState.diceValue = NULL

----------------------------------------------------------------------------
(* C16 *)

\* C16: an accepted pass gives the turn to the other seat, also on a pending
\* 6, and leaves every piece position and the lock map as they were.
C16_PassHandsTurnOver ==
    AppliedPass =>
        /\ games[Room].gameState.turn = 1 - PreState.turn
        /\ games[Room].gameState.currentPositions = PreState.currentPositions
        /\ games[Room].gameState.lockedPositions = PreState.lockedPositions

\* a pass on a pending 6 gave the turn away
C16_Witness ==
    /\ AppliedPass
    /\ PreState.diceValue = 6
    /\ games[Room].gameState.turn # PreState.turn

----------------------------------------------------------------------------
(* C17 *)

\* the match state applyMove left for the move intent of the seat in turn,
\* which is the state handleMakeMove hands to hasPlayerWon
StateChecked == applyMove(PreState, Mover, last.pieceIndex).gameState

\* how many pieces of playerId stand on its Home in gameState
piecesHome(gameState, playerId) ==
    Cardinality({ i \in PieceIndexes :
                    IsHome(playerId, at(gameState.currentPositions[playerId], i)) })

\* C17: on the state an intent was handled in, and on the state an accepted
\* move hands to the win check, hasPlayerWon is true of a seat exactly when
\* all four pieces of the seat stand on the seat's Home.
C17_WonIffAllFourHome ==
    (IsIntent /\ HadGame) =>
        \A playerId \in PlayerIds :
            /\ hasPlayerWon(PreState, playerId) <=> piecesHome(PreState, playerId) = 4
            /\ ( /\ last.op = "makeMove"
                 /\ InTurn
                 /\ validateMove(PreState, Mover, last.pieceIndex) )
               => ( hasPlayerWon(StateChecked, playerId)
                       <=> piecesHome(StateChecked, playerId) = 4 )

\* the win check held for the mover whose fourth piece reached Home, and it
\* did not hold for the other seat with two pieces on Home
C17_Witness ==
    /\ last.op = "makeMove"
    /\ InTurn
    /\ validateMove(PreState, Mover, last.pieceIndex)
    /\ hasPlayerWon(StateChecked, Mover)
    /\ piecesHome(StateChecked, Other) = 2
    /\ ~hasPlayerWon(StateChecked, Other)

----------------------------------------------------------------------------
(* C18 *)

\* C18: every accepted move is followed by one win check on the state the
\* move left, before the turn changes: when the mover has won, gameOver
\* with the mover as winner is all the room gets and the match is removed,
\* otherwise the match goes on with an updateGameState; and once the match
\* is removed, a roll, move or pass for the room changes nothing and emits
\* nothing.
C18_WinEndsMatch ==
    /\ ( /\ last.op = "makeMove"
         /\ InTurn
         /\ validateMove(PreState, Mover, last.pieceIndex) )
       => IF piecesHome(StateChecked, Mover) = 4
          THEN /\ emitted = <<[event |-> "gameOver", to |-> Room, winner |-> Mover]>>
               /\ Room \notin DOMAIN games
          ELSE AppliedMove
    /\ (IsIntent /\ ~HadGame) => (Untouched /\ emitted = <<>>)

\* an intent reached the room after the match was won and removed
C18_Witness ==
    /\ IsIntent
    /\ ~HadGame
    /\ Room \notin DOMAIN games
    /\ emitted = <<>>

\* the move that won the match
C18_GameOver ==
    /\ last.op = "makeMove"
    /\ HadGame
    /\ Room \notin DOMAIN games
    /\ Len(emitted) = 1
    /\ emitted[1].event = "gameOver"

----------------------------------------------------------------------------
(* C19 *)

\* Home lies fewer than d cells after position on the route of player
homeBefore(player, position, d) ==
    \E k \in 0..55 : route(player, k) = position /\ 56 - k < d

\* C19: the path getPath computes for a seat, a track or home-lane cell and
\* a dice value d of 1..6 has at most d cells; it has fewer than d exactly
\* when Home lies fewer than d cells ahead, and then it ends on Home.
C19_PathLengthAndTruncation ==
    (call.fn = "getPath" /\ call.done) =>
        /\ Len(call.path) <= call.diceValue
        /\ Len(call.path) < call.diceValue
              <=> homeBefore(call.player, call.currentPosition, call.diceValue)
        /\ Len(call.path) < call.diceValue
              => /\ Len(call.path) > 0
                 /\ call.path[Len(call.path)] = HOME_POSITIONS(call.player)

\* a path cut short at Home: 3 cells for a dice value of 5
C19_Witness ==
    /\ call.fn = "getPath"
    /\ call.done
    /\ call.diceValue = 5
    /\ Len(call.path) = 3
    /\ call.path[3] = HOME_POSITIONS(call.player)

----------------------------------------------------------------------------
(* C20 *)

\* C20: for an accepted move of a piece on the track or in the home lane
\* made on a pending dice value, the path of the movement data is the path
\* validateMove checked, and the piece stands on its last cell.
C20_AppliedPathIsValidatedPath ==
    ( /\ AppliedMove
      /\ PreState.diceValue # NULL
      /\ (IsTrack(MovedFrom) \/ IsHomeLane(Mover, MovedFrom)) )
    => LET path == getPath(Mover, MovedFrom, PreState.diceValue)
       IN  /\ emitted[1].moveData.path = path
           /\ MovedTo = path[Len(path)]

----------------------------------------------------------------------------
(* C21 *)

\* C21: for every seat and every cell p of the track or of the seat's home
\* lane, getNextPosition gives the first home-lane cell when p is the
\* seat's turning point, else the next home-lane cell when p is a home-lane
\* cell but the last, Home when p is the last home-lane cell, 0 when p is
\* 51, and p + 1 otherwise.
C21_NextPositionRule ==
    (call.fn = "getNextPosition" /\ call.done) =>
        LET p == call.currentPosition
            lane == HOME_ENTRANCE(call.playerId)
        IN  call.next =
                IF p = TURNING_POINTS(call.playerId) THEN lane[1]
                ELSE IF \E k \in 1..(Len(lane) - 1) : lane[k] = p
                THEN lane[(CHOOSE k \in 1..(Len(lane) - 1) : lane[k] = p) + 1]
                ELSE IF p = lane[Len(lane)] THEN HOME_POSITIONS(call.playerId)
                ELSE IF p = 51 THEN 0
                ELSE p + 1

\* the successor of the last track cell was asked for and is cell 0
C21_Witness ==
    /\ call.fn = "getNextPosition"
    /\ call.done
    /\ call.currentPosition = 51
    /\ call.next = 0

\* the successor of a seat's turning point is its first home-lane cell
C21_TurningPoint ==
    /\ call.fn = "getNextPosition"
    /\ call.done
    /\ call.currentPosition = TURNING_POINTS(call.playerId)
    /\ call.next = HOME_ENTRANCE(call.playerId)[1]

----------------------------------------------------------------------------
(* C22 *)

\* the seats with two or more pieces on a cell
seatsStacked(currentPositions, cell) ==
    { p \in DOMAIN currentPositions :
        Cardinality({ i \in 1..Len(currentPositions[p]) :
                        currentPositions[p][i] = cell }) >= 2 }

\* a Base slot or the Home of some seat
isBaseOrHome(cell) ==
    \E p \in PlayerIds : IsBase(p, cell) \/ IsHome(p, cell)

\* the cells some piece stands on
occupied(currentPositions) ==
    { at(currentPositions[p], i) : p \in DOMAIN currentPositions, i \in PieceIndexes }

\* C22: whenever the room waits for an intent, the keys of its lock map are
\* the cells, neither a Base slot nor a Home, on which some seat has two or
\* more pieces, and the value of a key is such a seat; this is so after
\* every applied move, capturing or not.
C22_LockMapIsDerived ==
    Room \in DOMAIN games =>
        LET gameState == games[Room].gameState
            currentPositions == gameState.currentPositions
        IN  /\ DOMAIN gameState.lockedPositions =
                 { c \in occupied(currentPositions) :
                     ~isBaseOrHome(c) /\ seatsStacked(currentPositions, c) # {} }
            /\ \A c \in DOMAIN gameState.lockedPositions :
                 gameState.lockedPositions[c] \in seatsStacked(currentPositions, c)

\* a capturing move took a piece off a stack: the lock it left is gone
C22_Witness ==
    /\ AppliedMove
    /\ OpposingMoved # {}
    /\ PreLockOwner(MovedFrom) = Mover
    /\ MovedFrom \notin DOMAIN games[Room].gameState.lockedPositions

----------------------------------------------------------------------------
(* C23 *)

\* C23: on no cell of the track or of a home lane do both seats have two or
\* more pieces, and a cell is a key of the lock map exactly when one seat
\* has two or more pieces on it.
C23_LockedByAtMostOneSeat ==
    Room \in DOMAIN games =>
        LET gameState == games[Room].gameState
            currentPositions == gameState.currentPositions
        IN  \A c \in occupied(currentPositions) :
                (IsTrack(c) \/ \E p \in PlayerIds : IsHomeLane(p, c)) =>
                    /\ Cardinality(seatsStacked(currentPositions, c)) <= 1
                    /\ c \in DOMAIN gameState.lockedPositions
                          <=> Cardinality(seatsStacked(currentPositions, c)) = 1

\* the seat in turn, with one piece on a safe cell the other seat locks,
\* tried to bring a second piece onto it and was refused
C23_Witness ==
    /\ last.op = "makeMove"
    /\ InTurn
    /\ PreState.diceValue # NULL
    /\ Rejected
    /\ IsTrack(MovedFrom)
    /\ LET path == getPath(Mover, MovedFrom, PreState.diceValue)
       IN  /\ PreLockOwner(path[Len(path)]) = Other
           /\ \E i \in PieceIndexes :
                 at(PreState.currentPositions[Mover], i) = path[Len(path)]

----------------------------------------------------------------------------
(* C24 *)

\* the room of the last event has a match
HasMatch(table) ==
    /\ last.room \in DOMAIN table
    /\ "gameState" \in DOMAIN table[last.room]

\* the last event was a joinGame that started a match
MatchStarted ==
    /\ last.op = "joinGame"
    /\ Len(emitted) = 2
    /\ emitted[2].event = "startGame"

\* C24: a match that has just been started has the four pieces of both
\* seats on their own Base slots, the turn on P1, the first seat, no dice
\* value, no capture flagged and an empty lock map.
C24_NewMatchState ==
    MatchStarted =>
        LET game == games[last.room]
        IN  /\ \A p \in PlayerIds :
                 game.gameState.currentPositions[p] = BASE_POSITIONS(p)
            /\ at(game.players, game.gameState.turn).playerId = "P1"
            /\ game.gameState.turn = 0
            /\ game.gameState.diceValue = NULL
            /\ ~game.gameState.killOccurred
            /\ DOMAIN game.gameState.lockedPositions = {}

----------------------------------------------------------------------------
(* C25 *)

\* the players array of the last event's room, before the event
PrePlayers == pre[last.room].players

\* C25: when one of the two seats of a match disconnects the match state of
\* the room is gone, and a roll, move or pass the remaining seat sends to a
\* room a seat has left is not accepted and changes nothing.
C25_MatchEndsWhenSeatLeaves ==
    /\ ( /\ last.op = "disconnect"
         /\ HasMatch(pre)
         /\ Len(PrePlayers) = 2
         /\ \E k \in 1..2 : PrePlayers[k].socketId = last.socketId )
       => ~HasMatch(games)
    /\ ( /\ IsIntent
         /\ last.room \in DOMAIN pre
         /\ Len(PrePlayers) < 2 )
       => /\ games = pre
          /\ \A k \in 1..Len(emitted) : emitted[k].to # last.room

----------------------------------------------------------------------------
(* C26 *)

\* C26: as long as a room has a match, its players array, which gives the
\* seat and the connection of each turn index, stays as it was when the
\* match started.
C26_SeatOrderFixed ==
    ( /\ last.op \in {"rollDice", "makeMove", "noMoves", "disconnect"}
      /\ HasMatch(pre)
      /\ HasMatch(games) )
    => games[last.room].players = PrePlayers

----------------------------------------------------------------------------
(* C27 *)

\* C27: a join, roll, move, pass or disconnect handled for one room leaves
\* every other room of the table as it was: none appears, none goes, and
\* the players and the match state of each stay the same.
C27_RoomsIndependent ==
    last.op \in {"joinGame", "rollDice", "makeMove", "noMoves", "disconnect"} =>
        /\ DOMAIN games \ {last.room} = DOMAIN pre \ {last.room}
        /\ \A r \in DOMAIN pre \ {last.room} : games[r] = pre[r]

\* a move changed the match of one room while another room had a match
C27_Witness ==
    /\ last.op = "makeMove"
    /\ HasMatch(pre)
    /\ HasMatch(games)
    /\ games[last.room].gameState.currentPositions
          # pre[last.room].gameState.currentPositions
    /\ \E r \in DOMAIN games \ {last.room} :
          /\ "gameState" \in DOMAIN games[r]
          /\ games[r] = pre[r]

\* the match of one room was won and removed while another room went on
C27_WinElsewhere ==
    /\ last.op = "makeMove"
    /\ HasMatch(pre)
    /\ last.room \notin DOMAIN games
    /\ \E r \in DOMAIN games : "gameState" \in DOMAIN games[r]

----------------------------------------------------------------------------
(* C28 *)

\* C28: an applied move of a Base piece puts the piece on its seat's entry
\* cell whatever the dice value, records the path of that one cell, leaves
\* the turn with the mover and clears the dice value.
C28_BaseExitLandsOnEntry ==
    (AppliedMove /\ IsBase(Mover, MovedFrom)) =>
        /\ MovedTo = START_POSITIONS(Mover)
        /\ emitted[1].moveData.path = <<START_POSITIONS(Mover)>>
        /\ games[Room].gameState.turn = PreState.turn
        /\ games[Room].gameState.diceValue = NULL

\* a Base piece came out onto the entry cell its own seat had locked
C28_Witness ==
    /\ AppliedMove
    /\ IsBase(Mover, MovedFrom)
    /\ PreLockOwner(START_POSITIONS(Mover)) = Mover
    /\ MovedTo = START_POSITIONS(Mover)
    /\ games[Room].gameState.turn = PreState.turn

----------------------------------------------------------------------------
(* C30 *)

\* the cell applyMove hands to checkForKill for the move of the seat in turn
Landing ==
    LET path == applyMove(PreState, Mover, last.pieceIndex).moveData.path
    IN  IF Len(path) > 0 THEN path[Len(path)] ELSE MovedFrom

\* C30: for no move that validateMove accepts is checkForKill called with a
\* landing cell that the lock map gives to the other seat.
C30_NoCaptureCheckOnOpposingLock ==
    ( /\ last.op = "makeMove"
      /\ InTurn
      /\ validateMove(PreState, Mover, last.pieceIndex) )
    => PreLockOwner(Landing) # Other


----------------------------------------------------------------------------
(* C39 *)

\* C39: in every state in which the engine awaits an intent the capture
\* flag of the match state is false; a capture shows in the movement data of
\* the move that made it and not in the state the handler leaves.
C39_CaptureFlagClearedBetweenIntents ==
    (Room \in DOMAIN games) => games[Room].gameState.killOccurred = FALSE

\* a move captured, kept the turn for it on a dice value other than 6, and
\* left the flag cleared
C39_Witness ==
    /\ AppliedMove
    /\ emitted[1].moveData.killOccurred
    /\ PreState.diceValue # 6
    /\ games[Room].gameState.turn = PreState.turn
    /\ games[Room].gameState.killOccurred = FALSE

----------------------------------------------------------------------------
(* C31 *)

\* the seats that have a piece on position in the match of the room
seatsOn(position) ==
    { p \in DOMAIN games[Room].gameState.currentPositions :
        \E i \in PieceIndexes :
            at(games[Room].gameState.currentPositions[p], i) = position }

\* C31: in every reachable state, every track cell that is not a safe cell
\* carries the pieces of at most one seat.
C31_NoOpposingPiecesShareACell ==
    (Room \in DOMAIN games) =>
        \A position \in TrackCells \ SAFE_POSITIONS :
            Cardinality(seatsOn(position)) <= 1

\* a move landed on a plain track cell where an opposing piece stood, and
\* the mover has the cell alone afterwards
C31_Witness ==
    /\ AppliedMove
    /\ IsTrack(MovedTo)
    /\ MovedTo \notin SAFE_POSITIONS
    /\ \E i \in PieceIndexes : at(PreState.currentPositions[Other], i) = MovedTo
    /\ seatsOn(MovedTo) = {Mover}

----------------------------------------------------------------------------
(* C34 *)

\* C34: in every room that has a match state the turn index is an index of
\* the players array, and no roll, move or pass ends in the TypeError of
\* reading a field of a player that is not there.
C34_TurnRefersToPresentSeat ==
    /\ \A room \in DOMAIN games :
          "gameState" \in DOMAIN games[room] =>
              games[room].gameState.turn < Len(games[room].players)
    /\ \A k \in 1..Len(emitted) : emitted[k].event # "TypeError"

----------------------------------------------------------------------------
(* C35 *)

\* C35: a join or a disconnect handled for a room that has a match state
\* and that is still in the table afterwards leaves that match state as it
\* was: it is neither dropped nor set up anew.
C35_MatchStateNotReinitialised ==
    ( /\ last.op \in {"joinGame", "disconnect"}
      /\ last.room \in DOMAIN pre
      /\ "gameState" \in DOMAIN pre[last.room]
      /\ last.room \in DOMAIN games )
    => /\ "gameState" \in DOMAIN games[last.room]
       /\ games[last.room].gameState = pre[last.room].gameState
       /\ ~MatchStarted

----------------------------------------------------------------------------
(* C36 *)

\* C36: in every room with a started match of two seats, the two seats are
\* held by two different connections.
C36_SeatsHeldByDistinctConnections ==
    \A room \in DOMAIN games :
        ("gameState" \in DOMAIN games[room] /\ Len(games[room].players) = 2)
        => games[room].players[1].socketId # games[room].players[2].socketId

----------------------------------------------------------------------------
(* C37 *)

\* C37: a move intent whose piece index is not one of 0..3 leaves the room
\* table as it was: the turn, the dice value and the position arrays are
\* unchanged.
C37_OutOfRangeIndexRejected ==
    (last.op = "makeMove" /\ last.pieceIndex \notin PieceIndexes) => games = pre

----------------------------------------------------------------------------
(* C32, C33, C38: the clients and the server together *)

\* the connection and the seat the server has in turn
TurnSocket == currentPlayerOf(games[Room]).socketId

TurnSeat == currentPlayerOf(games[Room]).playerId

\* the pieces of a seat that validateMove accepts in the server's state
Legal(playerId) ==
    { pieceIndex \in PieceIndexes :
        validateMove(games[Room].gameState, playerId, pieceIndex) }

\* the client of the seat in turn has heard its roll and has not clicked yet
RollHeard ==
    /\ Room \in DOMAIN games
    /\ last.op = "rollDice"
    /\ Len(emitted) = 1
    /\ emitted[1].event = "diceRolled"
    /\ clients[TurnSocket].state = DICE_ROLLED

\* C32: after a roll the pieces the client of the rolling seat highlights
\* are exactly the pieces of that seat that the server's validateMove
\* accepts in the same state.
C32_OfferedIsLegalSet ==
    RollHeard => clients[TurnSocket].highlighted = Legal(TurnSeat)

\* C33: whenever a client has emitted noMoves, validateMove rejects each of
\* the four pieces of its seat for the dice value pending on the server.
C33_PassOnlyWithoutLegalMove ==
    (Room \in DOMAIN games /\ taken("noMoves")) =>
        Legal(clients[Head(wire).from].playerId) = {}

\* the client of the seat in turn can send an intent that the server accepts
CanAct ==
    LET client == clients[TurnSocket]
        inTurn == getCurrentPlayerId(client) = client.playerId
    IN  IF games[Room].gameState.diceValue = NULL
        THEN client.diceEnabled /\ client.state = DICE_NOT_ROLLED /\ inTurn
        ELSE /\ client.state = DICE_ROLLED
             /\ inTurn
             /\ client.highlighted \cap Legal(TurnSeat) # {}

\* C38: in every state of a match with no intent on its way, the client of
\* the seat in turn can roll when no dice value is pending and can move a
\* highlighted piece that the server accepts when one is; this holds after
\* a move the server has rejected as well.
C38_ClientCanAlwaysAct ==
    (Room \in DOMAIN games /\ wire = <<>>) => CanAct
====
